---- MODULE Spec2Model ----
(***************************************************************************)
(* Model of the keyboard-layout generator: the Layout data structure       *)
(* (src/src/layout.rs) and the command-line driver (src/src/main.rs).      *)
(*                                                                         *)
(* A char is modelled by its code point (a natural number), a KeyMap<T> by *)
(* a function over the grid indices 0..29, a Layer by a KeyMap of chars    *)
(* and a Layout by the record [lower, upper] of its two Layers.  A Vec or  *)
(* a string is a sequence; Get(v, k) reads it at the 0-based index k.      *)
(***************************************************************************)
EXTENDS Integers, Sequences, FiniteSets, TLC

VARIABLES
    s,          \* from_string: the input string (sequence of code points)
    layout,     \* the Layout under construction / being shuffled
    layout0,    \* the Layout the run started from
    budget,     \* swaps the shuffle calls of this run may still draw
    layer,      \* swap: the Layer being swapped
    layer0,     \* swap: the Layer before the first swap
    swap_ij,    \* swap: the arguments <<i, j>>
    nswaps,     \* swap: how many times swap(i, j) has been applied
    rnd,        \* shuffle_position: the two values random::<usize>() yields
    pos,        \* shuffle_position: the returned pair, or <<>> before the call
    posmap,     \* get_position_map: the LayoutPosMap, or <<>> before the call
    kc,         \* get_key_position: the character asked for, or -1
    kp,         \* get_key_position: the returned Option<KeyPress>
    perm,       \* the LayoutPermutations iterator
    ret,        \* what the last call of next() returned
    count,      \* number of Some(layout) results next() has returned
    command,    \* the search the run performs ("run", "refine") or ""
    mainst      \* main: the state of one invocation of the program

vars == <<s, layout, layout0, budget, layer, layer0, swap_ij, nswaps, rnd, pos,
          posmap, kc, kp, perm, ret, count, command, mainst>>

(***************************************************************************)
(* Bounds of the model.                                                    *)
(***************************************************************************)
\* longest input string handed to from_string
MaxStrLen == 74
\* largest value drawn for random::<usize>() when shuffle_position is
\* checked on its own (two full periods of the modulus 29)
MaxRand == 57
\* swaps the shuffle calls of one run may draw in total
MaxSwaps == 2
\* largest depth a LayoutPermutations is built with
MaxDepth == 2

(***************************************************************************)
(* Types and statics of layout.rs.                                         *)
(***************************************************************************)
GridSize == 30
Grid == 0 .. (GridSize - 1)

\* KeyMap<T>(pub [T; 30]): the array literal t, indexed from 0.
KeyMap(t) == [k \in Grid |-> t[k + 1]]

Layout(lower, upper) == [lower |-> lower, upper |-> upper]

\* Vec::get / slice indexing at the 0-based index k (None when out of range).
InRange(v, k) == k >= 0 /\ k < Len(v)
Get(v, k) == v[k + 1]

\* '\0', the unassigned marker.
NUL == 0

\* lower: jcyfknu,lqrsthdmeaio/vgpbxw.;z
\* upper: JCYFKNU<LQARNSDMEAIO?VGPBXW>:Z
INIT_LAYOUT ==
    Layout(KeyMap(<<106, 99, 121, 102, 107, 110, 117, 44, 108, 113,
                    114, 115, 116, 104, 100, 109, 101, 97, 105, 111,
                    47, 118, 103, 112, 98, 120, 119, 46, 59, 122>>),
           KeyMap(<<74, 67, 89, 70, 75, 78, 85, 60, 76, 81,
                    65, 82, 78, 83, 68, 77, 69, 65, 73, 79,
                    63, 86, 71, 80, 66, 88, 87, 62, 58, 90>>))

\* lower: zgudbjrcf;hoetpvnsaiq.ywkxlm,/
\* upper: ZGUDBJRCF:HOETPVNSAIQ>YWKXLM<?
SHAKA_LAYOUT ==
    Layout(KeyMap(<<122, 103, 117, 100, 98, 106, 114, 99, 102, 59,
                    104, 111, 101, 116, 112, 118, 110, 115, 97, 105,
                    113, 46, 121, 119, 107, 120, 108, 109, 44, 47>>),
           KeyMap(<<90, 71, 85, 68, 66, 74, 82, 67, 70, 58,
                    72, 79, 69, 84, 80, 86, 78, 83, 65, 73,
                    81, 62, 89, 87, 75, 88, 76, 77, 60, 63>>))

LAYOUT_MASK_SWAP_OFFSETS ==
    <<0, 0, 0, 0, 0,    0, 0, 0, 0, 0,
      1, 1, 1, 1, 1,    1, 1, 1, 1, 1,
      1, 1, 1, 1, 1,    1, 1, 1, 1>>
LAYOUT_MASK_NUM_SWAPPABLE == 29

LAYOUT_FILE_IDXS ==
    KeyMap(<<0,  1,  2,  3,  4,     6,  7,  8,  9,  10,
             12, 13, 14, 15, 16,    18, 19, 20, 21, 22,
             24, 25, 26, 27, 28,    30, 31, 32, 33, 34>>)

\* The distance in the file from a lower-layer character to its upper-layer one.
UPPER_FILE_OFFSET == 36

(***************************************************************************)
(* Layer::swap.  The three assignments of the code, in order.              *)
(***************************************************************************)
swap_notemp(l, i, j) ==
    LET l1 == [l EXCEPT ![i] = l[j]]
    IN  [l1 EXCEPT ![j] = l1[i]]

swap(l, i, j) ==
    LET temp == l[i]
        l1 == [l EXCEPT ![i] = l[j]]
    IN  [l1 EXCEPT ![j] = temp]

swap_lower_only(lay, i, j) == Layout(swap(lay.lower, i, j), lay.upper)

\* lower.swap(i, j); upper.swap(i, j);
swap_both(lay, i, j) == Layout(swap(lay.lower, i, j), swap(lay.upper, i, j))

(***************************************************************************)
(* Layout::from_string.                                                    *)
(***************************************************************************)
\* *s.get(k).unwrap_or(&'\0')
get_or_nul(str, k) == IF InRange(str, k) THEN Get(str, k) ELSE NUL

from_string_shifted(str) ==
    Layout([i \in Grid |-> get_or_nul(str, i)],
           [i \in Grid |-> get_or_nul(str, i + UPPER_FILE_OFFSET)])

from_string(str) ==
    Layout([i \in Grid |-> get_or_nul(str, LAYOUT_FILE_IDXS[i])],
           [i \in Grid |-> get_or_nul(str, LAYOUT_FILE_IDXS[i] + UPPER_FILE_OFFSET)])

(***************************************************************************)
(* Layout::shuffle_position, as a function of the two random draws.        *)
(***************************************************************************)
shuffle_position_nobump(r1, r2) ==
    LET i0 == r1 % LAYOUT_MASK_NUM_SWAPPABLE
        j0 == r2 % (LAYOUT_MASK_NUM_SWAPPABLE - 1)
    IN  <<i0 + Get(LAYOUT_MASK_SWAP_OFFSETS, i0),
          j0 + Get(LAYOUT_MASK_SWAP_OFFSETS, j0)>>

shuffle_position_nooffset(r1, r2) ==
    LET i0 == r1 % LAYOUT_MASK_NUM_SWAPPABLE
        j0 == r2 % (LAYOUT_MASK_NUM_SWAPPABLE - 1)
        j1 == IF j0 >= i0 THEN j0 + 1 ELSE j0
    IN  <<i0, j1>>

shuffle_position(r1, r2) ==
    LET i0 == r1 % LAYOUT_MASK_NUM_SWAPPABLE
        j0 == r2 % (LAYOUT_MASK_NUM_SWAPPABLE - 1)
        j1 == IF j0 >= i0 THEN j0 + 1 ELSE j0
    IN  <<i0 + Get(LAYOUT_MASK_SWAP_OFFSETS, i0),
          j1 + Get(LAYOUT_MASK_SWAP_OFFSETS, j1)>>

(***************************************************************************)
(* The fixed attributes of the 30 keys.                                    *)
(***************************************************************************)
KEY_FINGERS == KeyMap(<<
    "Pinky", "Ring", "Middle", "Index", "Index",    "Index", "Index", "Middle", "Ring", "Pinky",
    "Pinky", "Ring", "Middle", "Index", "Index",    "Index", "Index", "Middle", "Ring", "Pinky",
    "Pinky", "Ring", "Middle", "Index", "Index",    "Index", "Index", "Middle", "Ring", "Pinky">>)
KEY_HANDS == KeyMap(<<
    "Left", "Left", "Left", "Left", "Left",    "Right", "Right", "Right", "Right", "Right",
    "Left", "Left", "Left", "Left", "Left",    "Right", "Right", "Right", "Right", "Right",
    "Left", "Left", "Left", "Left", "Left",    "Right", "Right", "Right", "Right", "Right">>)
KEY_ROWS == KeyMap(<<
    "Top",    "Top",    "Top",    "Top",    "Top",       "Top",    "Top",    "Top",    "Top",    "Top",
    "Home",   "Home",   "Home",   "Home",   "Home",      "Home",   "Home",   "Home",   "Home",   "Home",
    "Bottom", "Bottom", "Bottom", "Bottom", "Bottom",    "Bottom", "Bottom", "Bottom", "Bottom", "Bottom">>)
KEY_CENTER_COLUMN == KeyMap(<<
    FALSE, FALSE, FALSE, FALSE, TRUE,    TRUE, FALSE, FALSE, FALSE, FALSE,
    FALSE, FALSE, FALSE, FALSE, TRUE,    TRUE, FALSE, FALSE, FALSE, FALSE,
    FALSE, FALSE, FALSE, FALSE, TRUE,    TRUE, FALSE, FALSE, FALSE, FALSE>>)

\* Option<KeyPress>: None, and Some(KeyPress {..}).
KP_NONE == [some |-> FALSE]
KeyPress(c, i) ==
    [some |-> TRUE, kc |-> c, pos |-> i, finger |-> KEY_FINGERS[i],
     hand |-> KEY_HANDS[i], row |-> KEY_ROWS[i], center |-> KEY_CENTER_COLUMN[i]]

\* LayoutPosMap([Option<KeyPress>; 128]): the size of the array.
POS_MAP_SIZE == 128

(***************************************************************************)
(* Layer::fill_position_map: the loop over the slots in index order, each  *)
(* character below 128 overwriting the entry of its code point.            *)
(***************************************************************************)
RECURSIVE fill_from_keepfirst(_, _, _)
fill_from_keepfirst(l, map, i) ==
    IF i >= GridSize THEN map
    ELSE LET c == l[i]
         IN  IF c < POS_MAP_SIZE /\ ~map[c].some
             THEN fill_from_keepfirst(l, [map EXCEPT ![c] = KeyPress(c, i)], i + 1)
             ELSE fill_from_keepfirst(l, map, i + 1)

RECURSIVE fill_from(_, _, _)
fill_from(l, map, i) ==
    IF i >= GridSize THEN map
    ELSE LET c == l[i]
         IN  IF c < POS_MAP_SIZE
             THEN fill_from(l, [map EXCEPT ![c] = KeyPress(c, i)], i + 1)
             ELSE fill_from(l, map, i + 1)

fill_position_map_keepfirst(l, map) == fill_from_keepfirst(l, map, 0)

fill_position_map(l, map) == fill_from(l, map, 0)

\* Layout::get_position_map: lower, then upper, into an array of None.
get_position_map(lay) ==
    LET map0 == [c \in 0 .. (POS_MAP_SIZE - 1) |-> KP_NONE]
    IN  fill_position_map(lay.upper, fill_position_map(lay.lower, map0))

\* LayoutPosMap::get_key_position.
get_key_position(map, c) ==
    IF c < POS_MAP_SIZE THEN map[c] ELSE KP_NONE

(***************************************************************************)
(* LayoutPermutations: new, and the Iterator's next.                       *)
(***************************************************************************)
\* LayoutPermutations::new(layout, depth): 2 * depth zeros, not started.
new(lay, depth) ==
    [orig_layout |-> lay,
     swap_idx |-> [k \in 1 .. (depth * 2) |-> 0],
     started |-> FALSE]

\* The first index i (0-based) of swap_idx with e + 1 < NUM_SWAPPABLE - i,
\* or -1 when the loop ends without a break.
first_advance(idxs) ==
    LET can == {i \in 0 .. (Len(idxs) - 1) :
                    Get(idxs, i) + 1 < LAYOUT_MASK_NUM_SWAPPABLE - i}
    IN  IF can = {} THEN -1
        ELSE CHOOSE i \in can : \A k \in can : i <= k

\* The swap loop: pairs (swap_idx[i], swap_idx[i + 1]) for i = 0, 2, ...,
\* each mapped through the offsets and applied to both layers.
RECURSIVE apply_swaps(_, _, _)
apply_swaps(lay, idxs, i) ==
    IF ~(i < Len(idxs)) THEN lay
    ELSE LET swap_left  == Get(idxs, i) + Get(LAYOUT_MASK_SWAP_OFFSETS, Get(idxs, i))
             swap_right == Get(idxs, i + 1)
                           + Get(LAYOUT_MASK_SWAP_OFFSETS, Get(idxs, i + 1))
         IN  apply_swaps(swap_both(lay, swap_left, swap_right), idxs, i + 2)

\* The three locals (some, idx, val) and swap_idx after the advance step.
advance(p) ==
    IF p.started
    THEN LET i == first_advance(p.swap_idx)
         IN  IF i = -1
             THEN [some |-> FALSE, idx |-> 0, val |-> 0, swap_idx |-> p.swap_idx]
             ELSE [some |-> TRUE, idx |-> i, val |-> Get(p.swap_idx, i) + 1,
                   swap_idx |-> [p.swap_idx EXCEPT ![i + 1] = @ + 1]]
    ELSE [some |-> TRUE, idx |-> 1, val |-> 0, swap_idx |-> p.swap_idx]

\* for i in 0..idx { swap_idx[i] = val + idx - i }
reset_below(idxs, idx, val) ==
    [k \in 1 .. Len(idxs) |->
        IF (k - 1) < idx THEN val + idx - (k - 1) ELSE idxs[k]]

\* Option<Layout>: None, and Some(layout).
None == [some |-> FALSE]
Some(lay) == [some |-> TRUE, layout |-> lay]

\* As next_of, but an exhausted iterator is rewound for another pass.
next_of_restart(p) ==
    LET a == advance(p)
    IN  IF a.some
        THEN LET idxs == reset_below(a.swap_idx, a.idx, a.val)
             IN  [perm |-> [orig_layout |-> p.orig_layout, swap_idx |-> idxs,
                            started |-> TRUE],
                  ret |-> Some(apply_swaps(p.orig_layout, idxs, 0))]
        ELSE [perm |-> [orig_layout |-> p.orig_layout,
                        swap_idx |-> [k \in DOMAIN p.swap_idx |-> 0],
                        started |-> FALSE],
              ret |-> None]

\* next(&mut self): the iterator after the call, and the value returned.
next_of(p) ==
    LET a == advance(p)
    IN  IF a.some
        THEN LET idxs == reset_below(a.swap_idx, a.idx, a.val)
             IN  [perm |-> [orig_layout |-> p.orig_layout, swap_idx |-> idxs,
                            started |-> TRUE],
                  ret |-> Some(apply_swaps(p.orig_layout, idxs, 0))]
        ELSE [perm |-> [p EXCEPT !.swap_idx = a.swap_idx], ret |-> None]

(***************************************************************************)
(* State machine.  The variables fall into groups, one per operation under *)
(* check; a specification drives one group and leaves the others at rest.  *)
(***************************************************************************)
NoLayout == Layout(<<>>, <<>>)
NoPerm == [orig_layout |-> NoLayout, swap_idx |-> <<>>, started |-> FALSE]
\* ret before next() was ever called
NotCalled == [some |-> FALSE, pending |-> TRUE]
NoMain == [pc |-> "none"]

vString == <<s>>
vLayout == <<layout, layout0, budget, command>>
vSwap == <<layer, layer0, swap_ij, nswaps>>
vPos == <<rnd, pos>>
vMap == <<posmap, kc, kp>>
vPerm == <<perm, ret, count>>
vMain == <<mainst>>

RestString == s = <<>>
RestLayout == layout = NoLayout /\ layout0 = NoLayout /\ budget = 0 /\ command = ""
RestSwap == layer = <<>> /\ layer0 = <<>> /\ swap_ij = <<>> /\ nswaps = 0
RestPos == rnd = <<>> /\ pos = <<>>
RestMap == posmap = <<>> /\ kc = -1 /\ kp = KP_NONE
RestPerm == perm = NoPerm /\ ret = NotCalled /\ count = 0
RestMain == mainst = NoMain

(***************************************************************************)
(* Inputs: the contents of layout files.  A file of the expected form has  *)
(* six rows of "ccccc ccccc\n": 36 characters per layer.                   *)
(***************************************************************************)
\* "qwert yuiop\nasdfg hjkl;\nzxcvb nm,./\n" and its shifted half
QWERTY_FILE ==
    <<113, 119, 101, 114, 116, 32, 121, 117, 105, 111, 112, 10,
      97, 115, 100, 102, 103, 32, 104, 106, 107, 108, 59, 10,
      122, 120, 99, 118, 98, 32, 110, 109, 44, 46, 47, 10,
      81, 87, 69, 82, 84, 32, 89, 85, 73, 79, 80, 10,
      65, 83, 68, 70, 71, 32, 72, 74, 75, 76, 58, 10,
      90, 88, 67, 86, 66, 32, 78, 77, 60, 62, 63, 10>>

\* The file text of base b at the 0-based index k:
\*   "qwerty"   the QWERTY file, repeated
\*   "distinct" a different printable character at every index
\*   "wide"     characters beyond ASCII, with repeats
FileChar(b, k) ==
    CASE b = "qwerty" -> Get(QWERTY_FILE, k % Len(QWERTY_FILE))
      [] b = "distinct" -> 33 + k
      [] b = "wide" -> 200 + (k % 7)

FileBases == {"qwerty", "distinct", "wide"}
FilePrefix(b, n) == [k \in 1 .. n |-> FileChar(b, k - 1)]
InputStrings == {FilePrefix(b, n) : b \in FileBases, n \in 0 .. MaxStrLen}

\* A layout file that ends after ten characters: slots 9 to 29 of the lower
\* layer and the whole upper layer are unassigned.
SHORT_FILE_LAYOUT == from_string(FilePrefix("qwerty", 10))
\* A layout file in which a lower and an upper key share a character and
\* which holds characters beyond ASCII.
MIXED_FILE_LAYOUT ==
    from_string([k \in 1 .. 72 |->
        IF k \in {3, 50} THEN 233 ELSE IF k = 40 THEN 113
        ELSE FileChar("qwerty", k - 1)])

(***************************************************************************)
(* Layout::from_string on an input string.                                 *)
(***************************************************************************)
InitFromString ==
    /\ s \in InputStrings
    /\ layout = NoLayout /\ layout0 = NoLayout /\ budget = 0 /\ command = ""
    /\ RestSwap /\ RestPos /\ RestMap /\ RestPerm /\ RestMain

FromString ==
    /\ layout = NoLayout
    /\ layout' = from_string(s)
    /\ UNCHANGED <<s, layout0, budget, command, vSwap, vPos, vMap, vPerm, vMain>>

NextFromString == FromString

SpecFromString == InitFromString /\ [][NextFromString]_vars

(***************************************************************************)
(* Layer::swap(i, j), applied repeatedly with the same arguments.          *)
(***************************************************************************)
SampleLayers ==
    {SHAKA_LAYOUT.lower, INIT_LAYOUT.upper, SHORT_FILE_LAYOUT.lower}

InitSwap ==
    /\ layer0 \in SampleLayers
    /\ layer = layer0
    /\ swap_ij \in Grid \X Grid
    /\ nswaps = 0
    /\ RestString /\ RestLayout /\ RestPos /\ RestMap /\ RestPerm /\ RestMain

Swap ==
    /\ nswaps < MaxSwaps
    /\ layer' = swap(layer, swap_ij[1], swap_ij[2])
    /\ nswaps' = nswaps + 1
    /\ UNCHANGED <<layer0, swap_ij, vString, vLayout, vPos, vMap, vPerm, vMain>>

NextSwap == Swap

SpecSwap == InitSwap /\ [][NextSwap]_vars

(***************************************************************************)
(* Layout::shuffle_position on the two values the random source yields.    *)
(***************************************************************************)
RandRange == 0 .. MaxRand

InitShufflePosition ==
    /\ rnd \in RandRange \X RandRange
    /\ pos = <<>>
    /\ RestString /\ RestLayout /\ RestSwap /\ RestMap /\ RestPerm /\ RestMain

ShufflePosition ==
    /\ pos = <<>>
    /\ pos' = shuffle_position(rnd[1], rnd[2])
    /\ UNCHANGED <<rnd, vString, vLayout, vSwap, vMap, vPerm, vMain>>

NextShufflePosition == ShufflePosition

SpecShufflePosition == InitShufflePosition /\ [][NextShufflePosition]_vars

(***************************************************************************)
(* Layout::get_position_map and LayoutPosMap::get_key_position.            *)
(***************************************************************************)
\* largest code point asked of get_key_position
MaxChar == 255
QueryChars == 0 .. MaxChar

MapLayouts == {INIT_LAYOUT, SHAKA_LAYOUT, SHORT_FILE_LAYOUT, MIXED_FILE_LAYOUT}

InitPosMap ==
    /\ layout \in MapLayouts
    /\ layout0 = NoLayout /\ budget = 0 /\ command = ""
    /\ posmap = <<>> /\ kc = -1 /\ kp = KP_NONE
    /\ RestString /\ RestSwap /\ RestPos /\ RestPerm /\ RestMain

GetPositionMap ==
    /\ posmap = <<>>
    /\ posmap' = get_position_map(layout)
    /\ UNCHANGED <<kc, kp, vString, vLayout, vSwap, vPos, vPerm, vMain>>

GetKeyPosition ==
    /\ posmap # <<>>
    /\ \E c \in QueryChars :
        /\ kc' = c
        /\ kp' = get_key_position(posmap, c)
    /\ UNCHANGED <<posmap, vString, vLayout, vSwap, vPos, vPerm, vMain>>

NextPosMap == GetPositionMap \/ GetKeyPosition

SpecPosMap == InitPosMap /\ [][NextPosMap]_vars

(***************************************************************************)
(* Layout::shuffle and the LayoutPermutations iterator, from a starting    *)
(* Layout.  main dispatches a run either to the annealing search ("run"),  *)
(* which shuffles, or to the exhaustive search ("refine"), which iterates  *)
(* a LayoutPermutations built on the Layout.                               *)
(***************************************************************************)
StartLayouts == {SHAKA_LAYOUT, SHORT_FILE_LAYOUT}

\* Values the random source yields in a shuffle: around the pinned slot,
\* at both ends of the compact index space, beyond one period, and a large one.
RandVals == {0, 9, 10, 27, 28, 29, 1000003}

\* Layout::shuffle: one swap of both layers per draw of shuffle_position.
RECURSIVE shuffle(_, _)
shuffle(lay, draws) ==
    IF draws = <<>> THEN lay
    ELSE LET ij == shuffle_position(Head(draws)[1], Head(draws)[2])
         IN  shuffle(swap_both(lay, ij[1], ij[2]), Tail(draws))

InitLayout ==
    /\ layout0 \in StartLayouts
    /\ layout = layout0
    /\ budget = MaxSwaps
    /\ command \in {"run", "refine"}
    /\ \E depth \in 1 .. MaxDepth :
        perm = IF command = "refine" THEN new(layout0, depth) ELSE NoPerm
    /\ ret = NotCalled
    /\ count = 0
    /\ RestString /\ RestSwap /\ RestPos /\ RestMap /\ RestMain

Shuffle ==
    /\ command = "run"
    /\ \E times \in 0 .. budget :
        \E draws \in [1 .. times -> RandVals \X RandVals] :
            /\ layout' = shuffle(layout, draws)
            /\ budget' = budget - times
    /\ UNCHANGED <<layout0, command, vString, vSwap, vPos, vMap, vPerm, vMain>>

PermutationsNext ==
    /\ command = "refine"
    /\ LET r == next_of(perm)
       IN  /\ perm' = r.perm
           /\ ret' = r.ret
           /\ count' = IF r.ret.some THEN count + 1 ELSE count
    /\ UNCHANGED <<vString, vLayout, vSwap, vPos, vMap, vMain>>

NextLayout == Shuffle \/ PermutationsNext

SpecLayout == InitLayout /\ [][NextLayout]_vars


(***************************************************************************)
(* main: one invocation of the program, from the argument list to the      *)
(* dispatch of the command.  The arguments and the state of the two files  *)
(* are fixed when the program starts.                                      *)
(***************************************************************************)
\* Option<String>
NoString == [some |-> FALSE]
SomeString(str) == [some |-> TRUE, v |-> str]

\* Values given to --top / --swaps-per-iteration: "7", "12", "", "-3", "3x"
OptStrings == {<<55>>, <<49, 50>>, <<>>, <<45, 51>>, <<51, 120>>}
OptValues == {NoString} \cup {SomeString(str) : str \in OptStrings}

IsDigit(ch) == ch >= 48 /\ ch <= 57

RECURSIVE DecimalValue(_)
DecimalValue(str) ==
    IF str = <<>> THEN 0
    ELSE 10 * DecimalValue(SubSeq(str, 1, Len(str) - 1)) + (str[Len(str)] - 48)

\* num.parse::<usize>(): one or more decimal digits, after an optional '+'.
parse_usize(str) ==
    LET digits == IF str # <<>> /\ str[1] = 43 THEN Tail(str) ELSE str
    IN  IF digits # <<>> /\ \A k \in DOMAIN digits : IsDigit(digits[k])
        THEN [ok |-> TRUE, n |-> DecimalValue(digits)]
        ELSE [ok |-> FALSE]

numopt_zero(so, default) ==
    IF ~so.some THEN default
    ELSE LET r == parse_usize(so.v)
         IN  IF r.ok THEN r.n ELSE 0

numopt(so, default) ==
    IF ~so.some THEN default
    ELSE LET r == parse_usize(so.v)
         IN  IF r.ok THEN r.n ELSE default

DEFAULT_TOP == 1
DEFAULT_SWAPS == 3

Commands == {"run", "run-ref", "refine", "other"}
FileStates == {"ok", "noopen", "noread"}

InitMain ==
    /\ \E has_command \in BOOLEAN, cmd \in Commands, opts_ok \in BOOLEAN,
          help \in BOOLEAN, nfree \in 0 .. 2, t \in OptValues, sw \in OptValues,
          corpus \in FileStates, layoutfile \in FileStates :
        /\ ~has_command =>
            /\ cmd = "other" /\ opts_ok /\ ~help /\ nfree = 0
            /\ t = NoString /\ sw = NoString /\ corpus = "ok" /\ layoutfile = "ok"
        /\ mainst = [pc |-> "args", has_command |-> has_command, cmd |-> cmd,
                     opts_ok |-> opts_ok, help |-> help, nfree |-> nfree,
                     opt_t |-> t, opt_s |-> sw,
                     corpus |-> corpus, layoutfile |-> layoutfile,
                     corpus_read |-> FALSE, layout_src |-> "",
                     top |-> 0, swaps |-> 0, outcome |-> ""]
    /\ RestString /\ RestLayout /\ RestSwap /\ RestPos /\ RestMap /\ RestPerm

Finish(outcome) == [mainst EXCEPT !.pc = "done", !.outcome = outcome]

\* if args.len() < 2 { print_usage; return }
MainArgs ==
    /\ mainst.pc = "args"
    /\ mainst' = IF mainst.has_command THEN [mainst EXCEPT !.pc = "parse"]
                 ELSE Finish("usage")
    /\ UNCHANGED <<vString, vLayout, vSwap, vPos, vMap, vPerm>>

\* opts.parse(&args[2..]): Err panics.
MainParse ==
    /\ mainst.pc = "parse"
    /\ mainst' = IF mainst.opts_ok THEN [mainst EXCEPT !.pc = "help"]
                 ELSE Finish("panic")
    /\ UNCHANGED <<vString, vLayout, vSwap, vPos, vMap, vPerm>>

\* --help
MainHelp ==
    /\ mainst.pc = "help"
    /\ mainst' = IF mainst.help THEN Finish("usage")
                 ELSE [mainst EXCEPT !.pc = "corpus"]
    /\ UNCHANGED <<vString, vLayout, vSwap, vPos, vMap, vPerm>>

\* Read corpus.
MainCorpus ==
    /\ mainst.pc = "corpus"
    /\ mainst' =
        IF mainst.nfree < 1 THEN Finish("usage")
        ELSE IF mainst.corpus # "ok" THEN Finish("panic")
        ELSE [mainst EXCEPT !.pc = "layout", !.corpus_read = TRUE]
    /\ UNCHANGED <<vString, vLayout, vSwap, vPos, vMap, vPerm>>

\* Read layout, if applicable.
MainLayout ==
    /\ mainst.pc = "layout"
    /\ mainst' =
        IF mainst.nfree < 2
        THEN [mainst EXCEPT !.pc = "options", !.layout_src = "SHAKA_LAYOUT"]
        ELSE IF mainst.layoutfile # "ok" THEN Finish("panic")
        ELSE [mainst EXCEPT !.pc = "options", !.layout_src = "from_string"]
    /\ UNCHANGED <<vString, vLayout, vSwap, vPos, vMap, vPerm>>

\* Parse options.
MainOptions ==
    /\ mainst.pc = "options"
    /\ mainst' = [mainst EXCEPT !.pc = "dispatch",
                                !.top = numopt(mainst.opt_t, DEFAULT_TOP),
                                !.swaps = numopt(mainst.opt_s, DEFAULT_SWAPS)]
    /\ UNCHANGED <<vString, vLayout, vSwap, vPos, vMap, vPerm>>

\* match command.as_ref()
MainDispatch ==
    /\ mainst.pc = "dispatch"
    /\ mainst' = IF mainst.cmd \in {"run", "run-ref", "refine"}
                 THEN Finish(mainst.cmd) ELSE Finish("usage")
    /\ UNCHANGED <<vString, vLayout, vSwap, vPos, vMap, vPerm>>

NextMain ==
    \/ MainArgs \/ MainParse \/ MainHelp \/ MainCorpus
    \/ MainLayout \/ MainOptions \/ MainDispatch

SpecMain == InitMain /\ [][NextMain]_vars


(***************************************************************************)
(* Properties.                                                             *)
(***************************************************************************)
\* The grid slot no swap may touch: the index at which the entries of
\* LAYOUT_MASK_SWAP_OFFSETS step from 0 to 1.
PinnedSlot == 10
Eligible == Grid \ {PinnedSlot}

Range(f) == {f[x] : x \in DOMAIN f}
IsInjective(f) == \A x, y \in DOMAIN f : f[x] = f[y] => x = y

Max(S) == CHOOSE x \in S : \A y \in S : y <= x

RECURSIVE Choose(_, _)
Choose(n, k) ==
    IF k = 0 THEN 1 ELSE IF k > n THEN 0
    ELSE Choose(n - 1, k - 1) + Choose(n - 1, k)

\* The grid position a compact swap index stands for.
GridPos(c) == c + LAYOUT_MASK_SWAP_OFFSETS[c + 1]

\* a and b hold the same (lower, upper) character pairs, each as often: some
\* permutation of the 30 slots carries a to b in both Layers at once.  The
\* slots on which a and b agree hold the same pairs already, so the pairs
\* are counted on the slots on which they differ.
PairAt(lay, i) == <<lay.lower[i], lay.upper[i]>>
SamePairs(a, b) ==
    /\ DOMAIN a.lower = Grid /\ DOMAIN a.upper = Grid
    /\ DOMAIN b.lower = Grid /\ DOMAIN b.upper = Grid
    /\ LET D == {i \in Grid : PairAt(a, i) # PairAt(b, i)}
       IN  \A i \in D :
               Cardinality({j \in D : PairAt(a, j) = PairAt(a, i)})
                   = Cardinality({j \in D : PairAt(b, j) = PairAt(a, i)})

\* C1, as stated: for an original Layout whose lower-layer characters are
\* pairwise different, once next() has returned None it has returned
\* exactly C(29, 2 * depth) Layouts (406 at depth 1, 23751 at depth 2).
\* (The number of Layouts returned is what is stated here; that they are
\* pairwise different is not.)
C1_CountIsBinomial ==
    (ret = None /\ IsInjective(perm.orig_layout.lower)) =>
        count = Choose(29, Len(perm.swap_idx))

\* C2, as stated: at every emission, the first included, the 2 * depth
\* entries of swap_idx are pairwise different values in 0..28 and the
\* emitted Layout is the original with the depth swaps of swap_idx applied.
C2_IndicesDistinct ==
    ret.some =>
        /\ IsInjective(perm.swap_idx)
        /\ \A k \in DOMAIN perm.swap_idx : perm.swap_idx[k] \in 0 .. 28
        /\ ret.layout = apply_swaps(perm.orig_layout, perm.swap_idx, 0)

\* C3: after any sequence of shuffle(n) calls, and in every Layout the
\* iterator emits, the lower and upper characters that started on the same
\* key are still together on one key: the Layout is the starting Layout
\* with one permutation of the slots applied to both Layers.
C3_CrossLayerConsistent ==
    /\ SamePairs(layout, layout0)
    /\ ret.some => SamePairs(ret.layout, layout0)

\* Two swaps were drawn and moved characters of both Layers.
C3_Witness ==
    /\ command = "run" /\ budget = 0
    /\ layout.lower # layout0.lower
    /\ layout.upper # layout0.upper

\* C4, as stated: a character assigned to slot i of either Layer resolves
\* to a KeyPress with pos = i and the attributes of slot i, and a character
\* assigned to no slot resolves to None.  ('\0' marks a slot as unassigned
\* and is not taken for an assigned character here.)
C4_Original ==
    kc # -1 =>
        /\ \A i \in Grid :
            (kc # NUL /\ (layout.lower[i] = kc \/ layout.upper[i] = kc))
                => kp = KeyPress(kc, i)
        /\ (kc \notin Range(layout.lower) /\ kc \notin Range(layout.upper))
            => kp = KP_NONE

\* C4, amended: a character below 128 that occupies some slot resolves to
\* the KeyPress of the last slot holding it in fill order (the highest such
\* upper slot if the upper Layer holds it, else the highest such lower
\* slot), so to slot i when i is the only slot holding it; a character that
\* occupies no slot, or is 128 or above, resolves to None.
C4_LastWriteWins ==
    kc # -1 =>
        LET inLower == {i \in Grid : layout.lower[i] = kc}
            inUpper == {i \in Grid : layout.upper[i] = kc}
        IN  /\ (kc < 128 /\ inUpper # {}) => kp = KeyPress(kc, Max(inUpper))
            /\ (kc < 128 /\ inUpper = {} /\ inLower # {})
                => kp = KeyPress(kc, Max(inLower))
            /\ (kc >= 128 \/ (inUpper = {} /\ inLower = {})) => kp = KP_NONE
            /\ kp.some =>
                /\ kp.finger = KEY_FINGERS[kp.pos] /\ kp.hand = KEY_HANDS[kp.pos]
                /\ kp.row = KEY_ROWS[kp.pos] /\ kp.center = KEY_CENTER_COLUMN[kp.pos]

\* 'A' sits on slots 10 and 17 of INIT_LAYOUT's upper Layer and resolves to 17.
C4_Witness ==
    /\ layout = INIT_LAYOUT /\ kc = 65
    /\ layout.upper[10] = 65 /\ layout.upper[17] = 65
    /\ kp.some /\ kp.pos = 17

\* Every ordered pair of distinct swap-eligible grid positions is returned
\* by shuffle_position for some pair of random values.
AllPairsPossible ==
    \A a, b \in Eligible :
        a # b => \E r1, r2 \in RandRange : shuffle_position(r1, r2) = <<a, b>>

\* C5: whatever two values the random source yields, shuffle_position
\* returns grid positions (i, j) with i # j, both valid indices of the
\* 30-slot grid and neither the pinned slot 10; and every ordered pair of
\* distinct swap-eligible positions is the result of some draw.
C5_ShufflePositionValid ==
    /\ pos # <<>> =>
        /\ pos[1] # pos[2]
        /\ pos[1] \in Grid /\ pos[2] \in Grid
        /\ pos[1] # PinnedSlot /\ pos[2] # PinnedSlot
    /\ AllPairsPossible

\* The draw (9, 9): j is moved past i and then past the pinned slot.
C5_Witness == rnd = <<9, 9>> /\ pos = <<9, 11>>

\* Every swap-eligible slot is the target of some draw of shuffle_position
\* and of some compact index of the iterator.
EverySlotSwappable ==
    \A k \in Eligible :
        /\ \E r1, r2 \in RandRange :
            k = shuffle_position(r1, r2)[1] \/ k = shuffle_position(r1, r2)[2]
        /\ \E c \in 0 .. (LAYOUT_MASK_NUM_SWAPPABLE - 1) : GridPos(c) = k

\* C6: after any sequence of shuffle(n) calls and in every Layout the
\* iterator emits, grid slot 10 holds the lower and the upper character it
\* held in the starting Layout; every other slot is the target of some swap.
C6_PinnedSlotFixed ==
    /\ layout.lower[PinnedSlot] = layout0.lower[PinnedSlot]
    /\ layout.upper[PinnedSlot] = layout0.upper[PinnedSlot]
    /\ ret.some =>
        /\ ret.layout.lower[PinnedSlot] = layout0.lower[PinnedSlot]
        /\ ret.layout.upper[PinnedSlot] = layout0.upper[PinnedSlot]
    /\ EverySlotSwappable

\* The iterator swapped the two slots on either side of the pinned one.
C6_Witness ==
    /\ ret.some
    /\ perm.swap_idx = <<10, 9>>
    /\ ret.layout.lower[11] = layout0.lower[9]
    /\ ret.layout.lower[9] = layout0.lower[11]
    /\ ret.layout.lower[9] # layout0.lower[9]

\* C7: swap(i, j) applied twice in a row to a Layer, for any i, j in 0..29
\* (i = j included), leaves its 30 characters as they were; applied once,
\* it exchanges slots i and j and changes no other slot.
C7_SwapInvolution ==
    nswaps > 0 =>
        LET i == swap_ij[1]
            j == swap_ij[2]
        IN  /\ nswaps = 2 => layer = layer0
            /\ nswaps = 1 =>
                /\ layer[i] = layer0[j] /\ layer[j] = layer0[i]
                /\ \A k \in Grid \ {i, j} : layer[k] = layer0[k]
            /\ DOMAIN layer = Grid

\* Two slots holding different characters, swapped twice.
C7_Witness ==
    /\ nswaps = 2
    /\ swap_ij[1] # swap_ij[2]
    /\ layer0[swap_ij[1]] # layer0[swap_ij[2]]

\* Indices of a 36-character half of the layout file that no slot reads.
UnusedFileIdxs == {5, 11, 17, 23, 29, 35}

\* C8: from_string is defined on every string and positional: lower slot k
\* holds the character at index LAYOUT_FILE_IDXS[k] and upper slot k the one
\* at index LAYOUT_FILE_IDXS[k] + 36, or '\0' when that index is past the
\* end; the characters at indices 5, 11, 17, 23, 29, 35 (and those plus 36)
\* and at index 72 or beyond are read by no slot, so in a string of
\* pairwise different characters they do not occur in the Layout.
C8_FromStringPositional ==
    layout # NoLayout =>
        /\ DOMAIN layout.lower = Grid /\ DOMAIN layout.upper = Grid
        /\ \A k \in Grid :
            LET lo == LAYOUT_FILE_IDXS[k]
                up == LAYOUT_FILE_IDXS[k] + 36
            IN  /\ layout.lower[k] = IF lo < Len(s) THEN s[lo + 1] ELSE NUL
                /\ layout.upper[k] = IF up < Len(s) THEN s[up + 1] ELSE NUL
        /\ IsInjective(s) =>
            \A x \in 0 .. (Len(s) - 1) :
                (x >= 72 \/ x \in UnusedFileIdxs \/ (x - 36) \in UnusedFileIdxs)
                    => /\ s[x + 1] \notin Range(layout.lower)
                       /\ s[x + 1] \notin Range(layout.upper)

\* A string longer than 72 characters, all different, has been read.
C8_Witness ==
    /\ layout # NoLayout
    /\ Len(s) > 72 /\ IsInjective(s)
    /\ layout.upper[29] = s[71]

Searches == {"run", "run-ref", "refine"}
Malformed(so) == so.some /\ ~parse_usize(so.v).ok
\* What the dispatch does for the named command.
Selected(cmd) == IF cmd \in Searches THEN cmd ELSE "usage"
NamesCommandAndCorpus == mainst.has_command /\ mainst.nfree >= 1
LayoutNamed == mainst.nfree >= 2

\* C9, as stated: for every invocation that names a command and a corpus
\* path: an unreadable corpus aborts the run and starts no search; a named
\* and unreadable layout file aborts the run and starts no search; a value
\* of --top or --swaps-per-iteration that is no number is replaced by the
\* default (1, 3) and the run proceeds to the selected command.  (Read for
\* the invocations that get as far as the corpus: options accepted, no --help.)
C9_Original ==
    (mainst.pc = "done" /\ NamesCommandAndCorpus /\ mainst.opts_ok /\ ~mainst.help) =>
        /\ mainst.corpus # "ok" => mainst.outcome = "panic"
        /\ (LayoutNamed /\ mainst.layoutfile # "ok") => mainst.outcome = "panic"
        /\ Malformed(mainst.opt_t) =>
            (mainst.top = 1 /\ mainst.outcome = Selected(mainst.cmd))
        /\ Malformed(mainst.opt_s) =>
            (mainst.swaps = 3 /\ mainst.outcome = Selected(mainst.cmd))

\* C9, amended: the first two outcomes as stated; the third is that of a
\* run whose corpus and named layout file were read: there a value that is
\* no number is replaced by the default and the run proceeds to the
\* selected command, while a run whose files cannot be read aborts whatever
\* the options.
C9_ErrorOutcomes ==
    (mainst.pc = "done" /\ NamesCommandAndCorpus /\ mainst.opts_ok /\ ~mainst.help) =>
        /\ mainst.corpus # "ok" => mainst.outcome = "panic"
        /\ (LayoutNamed /\ mainst.layoutfile # "ok") => mainst.outcome = "panic"
        /\ (mainst.corpus = "ok" /\ (LayoutNamed => mainst.layoutfile = "ok")) =>
            /\ mainst.outcome = Selected(mainst.cmd)
            /\ Malformed(mainst.opt_t) => mainst.top = 1
            /\ Malformed(mainst.opt_s) => mainst.swaps = 3
            /\ ~Malformed(mainst.opt_t) /\ mainst.opt_t.some
                => mainst.top = DecimalValue(mainst.opt_t.v)

\* "--top 3x" with a readable corpus and layout file: the run is dispatched
\* with top = 1.
C9_Witness ==
    /\ mainst.pc = "done" /\ mainst.outcome = "run"
    /\ LayoutNamed /\ mainst.layout_src = "from_string"
    /\ mainst.opt_t = SomeString(<<51, 120>>) /\ mainst.top = 1
    /\ mainst.opt_s = SomeString(<<49, 50>>) /\ mainst.swaps = 12

\* No entry e at position i (0-based) of swap_idx has e + 1 < 29 - i.
NoneCanAdvance(p) ==
    \A i \in 0 .. (Len(p.swap_idx) - 1) : ~(p.swap_idx[i + 1] + 1 < 29 - i)

\* a comes before b when both are read as numbers whose most significant
\* digit is the last entry.
LexLess(a, b) ==
    \E k \in DOMAIN a :
        /\ a[k] < b[k]
        /\ \A m \in DOMAIN a : m > k => a[m] = b[m]

\* C10: repeated calls of next() reach a call that returns None after
\* finitely many calls: every call that returns a Layout moves swap_idx
\* strictly up in an order on the finitely many index vectors over 0..28,
\* after it a further call does not leave the iterator where it is, and a
\* call returns None exactly when no entry e at position i of swap_idx has
\* e + 1 < 29 - i.  From then on every call returns None and leaves
\* swap_idx and the original Layout as they are.
C10_TerminatesForGood ==
    [][/\ \A k \in DOMAIN perm'.swap_idx : perm'.swap_idx[k] \in 0 .. 28
       /\ ret'.some => LexLess(perm.swap_idx, perm'.swap_idx)
       /\ ret'.some => next_of(perm') # [perm |-> perm', ret |-> ret']
       /\ (ret' = None) <=> (command = "refine" /\ NoneCanAdvance(perm))
       /\ (ret = None) => (ret' = None /\ perm' = perm /\ count' = count)
       /\ perm'.orig_layout = perm.orig_layout
      ]_vars

\* The iterator is exhausted after emitting Layouts, its indices at their top.
C10_Witness ==
    /\ ret = None /\ count > 0
    /\ perm.started /\ perm.swap_idx[1] = 28

====
